---- MODULE Spec2Model ----
(***************************************************************************)
(* Model of ballista's physical-plan deserialisation,                      *)
(* rust/ballista/src/serde/physical_plan/from_proto.rs:                    *)
(*   impl TryInto<Arc<dyn ExecutionPlan>> for &protobuf::PhysicalPlanNode  *)
(*   fn compile_expr                                                       *)
(*                                                                         *)
(* try_into is recursive.  The recursion is modelled as a call stack of    *)
(* frames; each frame runs the statements of the match arm of its node in  *)
(* source order (Prog).  An Option<T> is a sequence of length <= 1, a      *)
(* Result<T, E> is a record [ok, val], a panic unwinds the whole stack.    *)
(***************************************************************************)
EXTENDS Integers, Sequences, FiniteSets, TLC

VARIABLES root, stack, ret, result, log, built

vars == <<root, stack, ret, result, log, built>>

(***************************************************************************)
(* Bounds of the checked inputs.                                           *)
(***************************************************************************)
MaxExprs == 2
MaxGroup == 1
MaxAggr == 2
MaxOn == 1
MaxParts == 3
MaxCode == 3

(***************************************************************************)
(* Option and Result.                                                      *)
(***************************************************************************)
None == <<>>

Some(x) == <<x>>

Ok(v) == [ok |-> TRUE, val |-> v]

Err(e) == [ok |-> FALSE, val |-> e]

SeqsUpTo(S, n) == UNION {[1..k -> S] : k \in 0..n}

(***************************************************************************)
(* BallistaError values.  kind is the class of the error, what tells the   *)
(* sites of one class apart (the message text of the source).              *)
(***************************************************************************)
BallistaError(kind, what) == [kind |-> kind, what |-> what]

proto_error(what) == BallistaError("General", what)

MissingPlanType == proto_error("Unsupported physical plan")

MissingRequiredField(field) == BallistaError("MissingRequiredField", field)

UnknownAggregateMode == proto_error("unknown AggregateMode")

UnknownJoinType == proto_error("unknown JoinType")

UnexpectedExpr == proto_error("Unexpected expr")

UnexpectedSortExpr == proto_error("Unexpected sort expr")

NotASortExpr == BallistaError("General", "physical_plan::from_proto()")

DataFusionError(what) == BallistaError("DataFusionError", what)

(***************************************************************************)
(* Wire expressions (protobuf::LogicalExprNode).                           *)
(***************************************************************************)
NoExprType == [expr_type |-> "None"]

ColumnExpr(n) == [expr_type |-> "Column", name |-> n]

UnsupportedExpr == [expr_type |-> "Unsupported"]

AggregateExpr(n) == [expr_type |-> "AggregateExpr", name |-> n]

SortExpr(child, asc, nulls_first) ==
    [expr_type |-> "Sort", expr |-> child, asc |-> asc, nulls_first |-> nulls_first]

AtomExprs == {NoExprType, ColumnExpr("a"), ColumnExpr("b"), UnsupportedExpr}

SortExprs ==
    {SortExpr(Some(ColumnExpr("a")), asc, nf) : asc \in BOOLEAN, nf \in BOOLEAN}
    \cup {SortExpr(None, TRUE, FALSE), SortExpr(Some(UnsupportedExpr), TRUE, FALSE)}

(***************************************************************************)
(* LogicalExprNode -> Expr (expr.try_into()).                              *)
(***************************************************************************)
RECURSIVE to_expr(_)
to_expr(e) ==
    CASE e.expr_type = "None" -> Err(BallistaError("General", "missing expr_type"))
      [] e.expr_type = "Unsupported" -> Err(BallistaError("General", "unsupported expression"))
      [] e.expr_type = "Column" -> Ok([variant |-> "Column", name |-> e.name])
      [] e.expr_type = "AggregateExpr" -> Ok([variant |-> "AggregateFunction", name |-> e.name])
      [] e.expr_type = "Sort" ->
            IF e.expr = None
            THEN Err(MissingRequiredField("expr"))
            ELSE LET c == to_expr(e.expr[1])
                 IN IF c.ok
                    THEN Ok([variant |-> "Sort", of |-> c.val,
                             asc |-> e.asc, nulls_first |-> e.nulls_first])
                    ELSE c

(***************************************************************************)
(* DefaultPhysicalPlanner::create_physical_expr: a column resolves by name *)
(* against the schema; sort and aggregate expressions have no physical     *)
(* expression.                                                             *)
(***************************************************************************)
HasColumn(schema, n) == \E i \in 1..Len(schema) : schema[i] = n

create_physical_expr(expr, schema) ==
    IF expr.variant = "Column"
    THEN IF HasColumn(schema, expr.name)
         THEN Ok([pexpr |-> "Column", name |-> expr.name])
         ELSE Err(DataFusionError("no such column"))
    ELSE Err(DataFusionError("unsupported physical expression"))

(***************************************************************************)
(* DefaultPhysicalPlanner::create_aggregate_expr.                          *)
(***************************************************************************)
create_aggregate_expr(expr, schema) ==
    IF expr.variant = "AggregateFunction"
    THEN IF HasColumn(schema, expr.name)
         THEN Ok([aexpr |-> "Avg", name |-> expr.name])
         ELSE Err(DataFusionError("no such column"))
    ELSE Err(DataFusionError("Invalid aggregate expression"))

(***************************************************************************)
(* fn compile_expr(expr, schema): convert to a logical expression, `?`,    *)
(* then create the physical expression; its error is mapped to General.    *)
(***************************************************************************)
compile_expr(expr, schema) ==
    LET e == to_expr(expr)
    IN IF ~e.ok
       THEN e
       ELSE LET p == create_physical_expr(e.val, schema)
            IN IF p.ok THEN p ELSE Err(BallistaError("General", p.val.what))

(***************************************************************************)
(* Wire schemas (protobuf::Schema) and their decoding (convert_required):  *)
(* a schema is its sequence of column names.                               *)
(***************************************************************************)
Schemas == {<<"a">>, <<"a", "b">>}

OptSchemas == {None} \cup {Some(s) : s \in Schemas}

convert_required(field, name) ==
    IF field = None THEN Err(MissingRequiredField(name)) ELSE Ok(field[1])

(***************************************************************************)
(* Wire partition locations and their decoding (p.clone().try_into()).     *)
(***************************************************************************)
WireLocation(id, meta) == [partition_id |-> id, executor_meta |-> meta]

WireLocations ==
    {WireLocation(Some("p0"), Some("h1")), WireLocation(Some("p1"), Some("h1")),
     WireLocation(None, Some("h1")), WireLocation(Some("p0"), None)}

to_partition_location(p) ==
    IF p.partition_id = None THEN Err(MissingRequiredField("partition_id"))
    ELSE IF p.executor_meta = None THEN Err(MissingRequiredField("executor_meta"))
    ELSE Ok([partition |-> p.partition_id[1], executor |-> p.executor_meta[1]])

(***************************************************************************)
(* Enum codes (protobuf::AggregateMode::from_i32, JoinType::from_i32).     *)
(***************************************************************************)
Codes == (0 - 1)..MaxCode

AggregateMode_from_i32(c) ==
    CASE c = 0 -> Some("Partial")
      [] c = 1 -> Some("Final")
      [] OTHER -> None

JoinType_from_i32(c) ==
    CASE c = 0 -> Some("Inner")
      [] c = 1 -> Some("Left")
      [] c = 2 -> Some("Right")
      [] OTHER -> None

(***************************************************************************)
(* Wire plan nodes (protobuf::PhysicalPlanNode), one constructor for each  *)
(* PhysicalPlanType variant.  A boxed child is an Option of a node.        *)
(***************************************************************************)
NoPlanType == [physical_plan_type |-> "None"]

ProjectionNode(input, expr) ==
    [physical_plan_type |-> "Projection", input |-> input, expr |-> expr]

FilterNode(input, expr) ==
    [physical_plan_type |-> "Filter", input |-> input, expr |-> expr]

CsvScanNode(schema, delimiter, projection) ==
    [physical_plan_type |-> "CsvScan", path |-> "t.csv", has_header |-> TRUE,
     file_extension |-> ".csv", schema |-> schema, delimiter |-> delimiter,
     projection |-> projection]

ParquetScanNode(filename, projection) ==
    [physical_plan_type |-> "ParquetScan", filename |-> filename,
     projection |-> projection]

SelectionNode == [physical_plan_type |-> "Selection"]

CoalesceBatchesNode(input) ==
    [physical_plan_type |-> "CoalesceBatches", input |-> input,
     target_batch_size |-> 4096]

GlobalLimitNode(input) ==
    [physical_plan_type |-> "GlobalLimit", input |-> input, limit |-> 10]

LocalLimitNode(input) ==
    [physical_plan_type |-> "LocalLimit", input |-> input, limit |-> 10]

HashAggregateNode(input, mode, group_expr, aggr_expr) ==
    [physical_plan_type |-> "HashAggregate", input |-> input, mode |-> mode,
     group_expr |-> group_expr, aggr_expr |-> aggr_expr]

HashJoinNode(left, right, on, join_type) ==
    [physical_plan_type |-> "HashJoin", left |-> left, right |-> right,
     on |-> on, join_type |-> join_type]

ShuffleReaderNode(schema, partition_location) ==
    [physical_plan_type |-> "ShuffleReader", schema |-> schema,
     partition_location |-> partition_location]

EmptyNode(schema, produce_one_row) ==
    [physical_plan_type |-> "Empty", schema |-> schema,
     produce_one_row |-> produce_one_row]

SortNode(input, expr) ==
    [physical_plan_type |-> "Sort", input |-> input, expr |-> expr]

(***************************************************************************)
(* The inputs of the checked runs: trees of up to three levels.            *)
(***************************************************************************)
EmptyA == EmptyNode(Some(<<"a">>), TRUE)

EmptyAB == EmptyNode(Some(<<"a", "b">>), FALSE)

LeafNodes ==
    {NoPlanType, SelectionNode}
    \cup {EmptyNode(s, r) : s \in OptSchemas, r \in BOOLEAN}
    \cup {CsvScanNode(s, d, p) : s \in OptSchemas, d \in {"", ","}, p \in {<<>>, <<0>>}}
    \cup {ParquetScanNode(<<"f.parquet">>, p) : p \in {<<>>, <<0>>}}
    \cup {ShuffleReaderNode(s, l) : s \in OptSchemas, l \in SeqsUpTo(WireLocations, MaxParts)}

InnerLeaves ==
    {NoPlanType, SelectionNode, EmptyA, EmptyAB, EmptyNode(None, TRUE),
     CsvScanNode(Some(<<"a">>), "", <<0>>),
     ShuffleReaderNode(Some(<<"a">>), <<WireLocation(Some("p0"), None)>>)}

MidNodes ==
    {LocalLimitNode(i) : i \in {None, Some(NoPlanType), Some(EmptyA)}}
    \cup {FilterNode(Some(EmptyA), e) : e \in {None, Some(ColumnExpr("a"))}}
    \cup {ProjectionNode(Some(EmptyAB), <<ColumnExpr("b")>>),
          SortNode(Some(EmptyA), <<ColumnExpr("a")>>),
          HashJoinNode(Some(EmptyA), Some(NoPlanType), <<>>, 0),
          HashAggregateNode(Some(EmptyA), 0, <<>>, <<UnsupportedExpr>>)}

Inputs == {None} \cup {Some(n) : n \in InnerLeaves \cup MidNodes}

JoinInputs ==
    {None} \cup {Some(n) : n \in {NoPlanType, SelectionNode, EmptyA, EmptyAB,
                                  LocalLimitNode(None), LocalLimitNode(Some(EmptyA)),
                                  LocalLimitNode(Some(NoPlanType))}}

ProjectionExprs == AtomExprs \cup {SortExpr(Some(ColumnExpr("a")), TRUE, FALSE)}

SortListExprs == SortExprs \cup {NoExprType, ColumnExpr("a")}

GroupExprs == {ColumnExpr("a"), UnsupportedExpr}

AggrExprs == {AggregateExpr("a"), ColumnExpr("a"), UnsupportedExpr}

OnPairs == {[left |-> "a", right |-> "a"], [left |-> "a", right |-> "b"]}

RootNodes ==
    LeafNodes
    \cup {ProjectionNode(i, e) : i \in Inputs, e \in SeqsUpTo(ProjectionExprs, MaxExprs)}
    \cup {FilterNode(i, e) : i \in Inputs, e \in {None} \cup {Some(x) : x \in ProjectionExprs}}
    \cup {CoalesceBatchesNode(i) : i \in Inputs}
    \cup {GlobalLimitNode(i) : i \in Inputs}
    \cup {LocalLimitNode(i) : i \in Inputs}
    \cup {HashAggregateNode(i, m, g, a) :
            i \in JoinInputs, m \in Codes,
            g \in SeqsUpTo(GroupExprs, MaxGroup), a \in SeqsUpTo(AggrExprs, MaxAggr)}
    \cup {HashJoinNode(l, r, o, t) :
            l \in JoinInputs, r \in JoinInputs, o \in SeqsUpTo(OnPairs, MaxOn), t \in Codes}
    \cup {SortNode(i, e) : i \in Inputs, e \in SeqsUpTo(SortListExprs, MaxExprs)}

(***************************************************************************)
(* The node at a path of child fields, and the paths of a tree.            *)
(***************************************************************************)
ChildFields(node) ==
    CASE node.physical_plan_type \in
            {"Projection", "Filter", "CoalesceBatches", "GlobalLimit",
             "LocalLimit", "HashAggregate", "Sort"} -> <<"input">>
      [] node.physical_plan_type = "HashJoin" -> <<"left", "right">>
      [] OTHER -> <<>>

IsChildField(node, f) == \E i \in 1..Len(ChildFields(node)) : ChildFields(node)[i] = f

RECURSIVE NodeAt(_, _)
NodeAt(node, path) ==
    IF path = <<>> THEN Some(node)
    ELSE IF ~IsChildField(node, Head(path)) THEN None
    ELSE IF node[Head(path)] = None THEN None
    ELSE NodeAt(node[Head(path)][1], Tail(path))

Paths == SeqsUpTo({"input", "left", "right"}, 2)

IsPrefix(p, q) == Len(p) <= Len(q) /\ SubSeq(q, 1, Len(p)) = p

(***************************************************************************)
(* iter().map(f).collect::<Result<Vec<_>, _>>(): the values in order, or   *)
(* the error of the first element that fails.                              *)
(***************************************************************************)
collect(rs) ==
    IF \E i \in 1..Len(rs) : ~rs[i].ok
    THEN LET k == CHOOSE i \in 1..Len(rs) :
                      ~rs[i].ok /\ \A j \in 1..(i - 1) : rs[j].ok
         IN Err(rs[k].val)
    ELSE Ok([i \in 1..Len(rs) |-> rs[i].val])

(***************************************************************************)
(* Variants of Prog: the Filter arm unwrapping its predicate before it     *)
(* converts its input, and the HashAggregate arm decoding its mode before  *)
(* it converts its input.                                                  *)
(***************************************************************************)
Prog_predicate_first(t) ==
    CASE t = "Projection" -> <<"input", "expr", "new">>
      [] t = "Filter" -> <<"predicate", "input", "new">>
      [] t = "CsvScan" -> <<"schema", "options", "new">>
      [] t = "ParquetScan" -> <<"new">>
      [] t = "Selection" -> <<"unimplemented">>
      [] t = "CoalesceBatches" -> <<"input", "new">>
      [] t = "GlobalLimit" -> <<"input", "new">>
      [] t = "LocalLimit" -> <<"input", "new">>
      [] t = "HashAggregate" -> <<"input", "mode", "group_expr", "aggr_expr", "new">>
      [] t = "HashJoin" -> <<"left", "right", "on", "join_type", "new">>
      [] t = "ShuffleReader" -> <<"schema", "partition_location", "new">>
      [] t = "Empty" -> <<"schema", "new">>
      [] t = "Sort" -> <<"input", "sort_expr", "new">>

Prog_mode_first(t) ==
    CASE t = "Projection" -> <<"input", "expr", "new">>
      [] t = "Filter" -> <<"input", "predicate", "new">>
      [] t = "CsvScan" -> <<"schema", "options", "new">>
      [] t = "ParquetScan" -> <<"new">>
      [] t = "Selection" -> <<"unimplemented">>
      [] t = "CoalesceBatches" -> <<"input", "new">>
      [] t = "GlobalLimit" -> <<"input", "new">>
      [] t = "LocalLimit" -> <<"input", "new">>
      [] t = "HashAggregate" -> <<"mode", "input", "group_expr", "aggr_expr", "new">>
      [] t = "HashJoin" -> <<"left", "right", "on", "join_type", "new">>
      [] t = "ShuffleReader" -> <<"schema", "partition_location", "new">>
      [] t = "Empty" -> <<"schema", "new">>
      [] t = "Sort" -> <<"input", "sort_expr", "new">>

(***************************************************************************)
(* The statements of each match arm of try_into, in source order.          *)
(***************************************************************************)
Prog(t) ==
    CASE t = "Projection" -> <<"input", "expr", "new">>
      [] t = "Filter" -> <<"input", "predicate", "new">>
      [] t = "CsvScan" -> <<"schema", "options", "new">>
      [] t = "ParquetScan" -> <<"new">>
      [] t = "Selection" -> <<"unimplemented">>
      [] t = "CoalesceBatches" -> <<"input", "new">>
      [] t = "GlobalLimit" -> <<"input", "new">>
      [] t = "LocalLimit" -> <<"input", "new">>
      [] t = "HashAggregate" -> <<"input", "mode", "group_expr", "aggr_expr", "new">>
      [] t = "HashJoin" -> <<"left", "right", "on", "join_type", "new">>
      [] t = "ShuffleReader" -> <<"schema", "partition_location", "new">>
      [] t = "Empty" -> <<"schema", "new">>
      [] t = "Sort" -> <<"input", "sort_expr", "new">>

(***************************************************************************)
(* A frame of try_into: the node, its path from the root, the position in  *)
(* the arm (0: before the discriminator is read) and the locals.           *)
(***************************************************************************)
Frame(node, path) ==
    [node |-> node, path |-> path, pc |-> 0, kids |-> <<>>, schema |-> <<>>,
     code |-> None, bound |-> <<>>, aggr |-> <<>>, on |-> <<>>, parts |-> <<>>,
     options |-> None]

Running == [status |-> "running", val |-> <<>>]

Top == stack[Len(stack)]

Caller == SubSeq(stack, 1, Len(stack) - 1)

AtStep(s) ==
    /\ stack # <<>>
    /\ Top.pc >= 1
    /\ Prog(Top.node.physical_plan_type)[Top.pc] = s

Event(path, ev, err) == [path |-> path, ev |-> ev, err |-> err]

(* the frame goes on to its next statement with the locals of f *)
Continue(f, ev) ==
    /\ stack' = Append(Caller, [f EXCEPT !.pc = Top.pc + 1])
    /\ log' = Append(log, Event(Top.path, ev, None))
    /\ UNCHANGED <<root, ret, result, built>>

(* the frame returns Err(e): the `?` operator, or an Err(..) expression *)
ReturnErr(e) ==
    /\ stack' = Caller
    /\ ret' = Some(Err(e))
    /\ log' = Append(log, Event(Top.path, "err", Some(e)))
    /\ UNCHANGED <<root, result, built>>

(* the frame returns Ok(Arc::new(op)) *)
ReturnOk(op) ==
    /\ stack' = Caller
    /\ ret' = Some(Ok(op))
    /\ built' = [built EXCEPT ![Top.path] = Some(op)]
    /\ log' = Append(log, Event(Top.path, "new", None))
    /\ UNCHANGED <<root, result>>

(* a panic unwinds every frame; the call yields no value *)
Panic(what) ==
    /\ stack' = <<>>
    /\ ret' = None
    /\ result' = [status |-> "abort", val |-> <<[panic |-> what, path |-> Top.path]>>]
    /\ log' = Append(log, Event(Top.path, "panic", None))
    /\ UNCHANGED <<root, built>>

(***************************************************************************)
(* The state after the caller has built the message and called try_into.   *)
(***************************************************************************)
Init ==
    /\ root \in RootNodes
    /\ stack = <<Frame(root, <<>>)>>
    /\ ret = None
    /\ result = Running
    /\ log = <<>>
    /\ built = [p \in Paths |-> None]

(***************************************************************************)
(* Variant of Dispatch: a node without a discriminator becomes an empty    *)
(* relation instead of an error.                                           *)
(***************************************************************************)
Dispatch_default ==
    /\ stack # <<>>
    /\ ret = None
    /\ Top.pc = 0
    /\ IF Top.node.physical_plan_type = "None"
       THEN ReturnOk([op |-> "EmptyExec", produce_one_row |-> FALSE, schema |-> <<>>])
       ELSE /\ stack' = Append(Caller, [Top EXCEPT !.pc = 1])
            /\ log' = Append(log, Event(Top.path, "match", None))
            /\ UNCHANGED <<root, ret, result, built>>

(***************************************************************************)
(* self.physical_plan_type.as_ref().ok_or_else(..)?  and the match.        *)
(***************************************************************************)
Dispatch ==
    /\ stack # <<>>
    /\ ret = None
    /\ Top.pc = 0
    /\ IF Top.node.physical_plan_type = "None"
       THEN ReturnErr(MissingPlanType)
       ELSE /\ stack' = Append(Caller, [Top EXCEPT !.pc = 1])
            /\ log' = Append(log, Event(Top.path, "match", None))
            /\ UNCHANGED <<root, ret, result, built>>

(***************************************************************************)
(* convert_box_required!(node.field): a missing child is an error, a       *)
(* present child is translated by a recursive try_into.                    *)
(***************************************************************************)
convert_box_required ==
    /\ \E s \in {"input", "left", "right"} : AtStep(s)
    /\ ret = None
    /\ LET s == Prog(Top.node.physical_plan_type)[Top.pc]
       IN IF Top.node[s] = None
          THEN ReturnErr(MissingRequiredField(s))
          ELSE /\ stack' = Append(stack, Frame(Top.node[s][1], Append(Top.path, s)))
               /\ log' = Append(log, Event(Top.path, "call", None))
               /\ UNCHANGED <<root, ret, result, built>>

(***************************************************************************)
(* The `?` on the result of the recursive call: an error is returned at    *)
(* once, an operator becomes the local input / left / right.               *)
(***************************************************************************)
ChildReturn ==
    /\ \E s \in {"input", "left", "right"} : AtStep(s)
    /\ ret # None
    /\ IF ret[1].ok
       THEN /\ stack' = Append(Caller, [Top EXCEPT !.pc = Top.pc + 1,
                                                   !.kids = Append(Top.kids, ret[1].val)])
            /\ ret' = None
            /\ log' = Append(log, Event(Top.path, "child", None))
            /\ UNCHANGED <<root, result, built>>
       ELSE ReturnErr(ret[1].val)

(***************************************************************************)
(* The caller of the root try_into receives its Result.                    *)
(***************************************************************************)
Finish ==
    /\ stack = <<>>
    /\ ret # None
    /\ result = Running
    /\ result' = [status |-> IF ret[1].ok THEN "ok" ELSE "err", val |-> <<ret[1].val>>]
    /\ ret' = None
    /\ UNCHANGED <<root, stack, log, built>>

(***************************************************************************)
(* input.schema(): the schema of the translated input.                     *)
(***************************************************************************)
input_schema(f) == IF f.kids = <<>> THEN <<>> ELSE f.kids[1].schema

(***************************************************************************)
(* Variant of projection_exprs: the pairs are collected in reverse order.  *)
(***************************************************************************)
projection_exprs_reversed(f) ==
    collect([i \in 1..Len(f.node.expr) |->
               LET c == compile_expr(f.node.expr[Len(f.node.expr) + 1 - i], input_schema(f))
               IN IF c.ok THEN Ok(<<c.val, "unused">>) ELSE c])

(***************************************************************************)
(* Projection: each expression is compiled against the input's schema and  *)
(* paired with the name "unused"; the first failure is returned.           *)
(***************************************************************************)
projection_exprs(f) ==
    collect([i \in 1..Len(f.node.expr) |->
               LET c == compile_expr(f.node.expr[i], input_schema(f))
               IN IF c.ok THEN Ok(<<c.val, "unused">>) ELSE c])

BindProjection ==
    /\ AtStep("expr")
    /\ LET r == projection_exprs(Top)
       IN IF r.ok THEN Continue([Top EXCEPT !.bound = r.val], "bind")
          ELSE ReturnErr(r.val)

(***************************************************************************)
(* Filter: compile_expr(filter.expr.as_ref().unwrap(), &input.schema())?   *)
(***************************************************************************)
BindFilter ==
    /\ AtStep("predicate")
    /\ IF Top.node.expr = None
       THEN Panic("unwrap on None")
       ELSE LET r == compile_expr(Top.node.expr[1], input_schema(Top))
            IN IF r.ok THEN Continue([Top EXCEPT !.bound = <<r.val>>], "bind")
               ELSE ReturnErr(r.val)

(***************************************************************************)
(* CsvScan, ShuffleReader, Empty: convert_required!(node.schema)?          *)
(***************************************************************************)
ConvertSchema ==
    /\ AtStep("schema")
    /\ LET r == convert_required(Top.node.schema, "schema")
       IN IF r.ok THEN Continue([Top EXCEPT !.schema = r.val], "schema")
          ELSE ReturnErr(r.val)

(***************************************************************************)
(* CsvScan: CsvReadOptions; scan.delimiter.as_bytes()[0] indexes the first *)
(* byte of the delimiter and panics on an empty string.                    *)
(***************************************************************************)
CsvOptions ==
    /\ AtStep("options")
    /\ IF Top.node.delimiter = ""
       THEN Panic("index out of bounds")
       ELSE Continue([Top EXCEPT !.options =
                         Some([has_header |-> Top.node.has_header,
                               file_extension |-> Top.node.file_extension,
                               delimiter |-> Top.node.delimiter])], "options")

(***************************************************************************)
(* PhysicalPlanType::Selection(_) => unimplemented!()                      *)
(***************************************************************************)
Unimplemented ==
    /\ AtStep("unimplemented")
    /\ Panic("not implemented")

(***************************************************************************)
(* Variant of agg_mode: an unknown code falls back to Partial.             *)
(***************************************************************************)
agg_mode_default(c) ==
    LET m == AggregateMode_from_i32(c)
    IN IF m = None THEN Ok("Partial")
       ELSE Ok(CASE m[1] = "Partial" -> "Partial" [] m[1] = "Final" -> "Final")

(***************************************************************************)
(* HashAggregate: AggregateMode::from_i32(mode).ok_or_else(..)? and the    *)
(* match to the DataFusion AggregateMode.                                  *)
(***************************************************************************)
agg_mode(c) ==
    LET m == AggregateMode_from_i32(c)
    IN IF m = None THEN Err(UnknownAggregateMode)
       ELSE Ok(CASE m[1] = "Partial" -> "Partial" [] m[1] = "Final" -> "Final")

DecodeMode ==
    /\ AtStep("mode")
    /\ LET r == agg_mode(Top.node.mode)
       IN IF r.ok THEN Continue([Top EXCEPT !.code = Some(r.val)], "decode")
          ELSE ReturnErr(r.val)

(***************************************************************************)
(* HashAggregate: the group expressions, compiled like a projection's.     *)
(***************************************************************************)
group_exprs(f) ==
    collect([i \in 1..Len(f.node.group_expr) |->
               LET c == compile_expr(f.node.group_expr[i], input_schema(f))
               IN IF c.ok THEN Ok(<<c.val, "unused">>) ELSE c])

BindGroup ==
    /\ AtStep("group_expr")
    /\ LET r == group_exprs(Top)
       IN IF r.ok THEN Continue([Top EXCEPT !.bound = r.val], "bind")
          ELSE ReturnErr(r.val)

(***************************************************************************)
(* HashAggregate: each aggregate expression is converted to a logical      *)
(* expression with try_into().unwrap(), which panics when the conversion   *)
(* fails, and then made an aggregate expression by the planner.            *)
(***************************************************************************)
to_dfschema(schema) ==
    IF \E i, j \in 1..Len(schema) : i # j /\ schema[i] = schema[j]
    THEN Err(DataFusionError("duplicate field name"))
    ELSE Ok(schema)

aggr_expr(expr, schema) ==
    LET e == to_expr(expr)
    IN IF e.ok THEN create_aggregate_expr(e.val, schema) ELSE e

aggr_panics(f) ==
    \E i \in 1..Len(f.node.aggr_expr) :
        /\ \/ ~to_expr(f.node.aggr_expr[i]).ok
           \/ ~to_dfschema(input_schema(f)).ok
        /\ \A j \in 1..(i - 1) : aggr_expr(f.node.aggr_expr[j], input_schema(f)).ok

aggr_exprs(f) ==
    collect([i \in 1..Len(f.node.aggr_expr) |->
               aggr_expr(f.node.aggr_expr[i], input_schema(f))])

BindAggr ==
    /\ AtStep("aggr_expr")
    /\ IF aggr_panics(Top)
       THEN Panic("unwrap on Err")
       ELSE LET r == aggr_exprs(Top)
            IN IF r.ok THEN Continue([Top EXCEPT !.aggr = r.val], "bind")
               ELSE ReturnErr(r.val)

(***************************************************************************)
(* HashJoin: the on pairs as (left name, right name), in wire order.       *)
(***************************************************************************)
join_on(f) == [i \in 1..Len(f.node.on) |-> <<f.node.on[i].left, f.node.on[i].right>>]

CollectOn ==
    /\ AtStep("on")
    /\ Continue([Top EXCEPT !.on = join_on(Top)], "on")

(***************************************************************************)
(* HashJoin: JoinType::from_i32(join_type).ok_or_else(..)? and the match.  *)
(***************************************************************************)
join_type(c) ==
    LET t == JoinType_from_i32(c)
    IN IF t = None THEN Err(UnknownJoinType)
       ELSE Ok(CASE t[1] = "Inner" -> "Inner" [] t[1] = "Left" -> "Left"
                 [] t[1] = "Right" -> "Right")

DecodeJoinType ==
    /\ AtStep("join_type")
    /\ LET r == join_type(Top.node.join_type)
       IN IF r.ok THEN Continue([Top EXCEPT !.code = Some(r.val)], "decode")
          ELSE ReturnErr(r.val)

(***************************************************************************)
(* Variant of partition_locations: entries that fail to decode are left    *)
(* out (filter_map).                                                       *)
(***************************************************************************)
partition_locations_skipping(f) ==
    LET decoded == [i \in 1..Len(f.node.partition_location) |->
                      to_partition_location(f.node.partition_location[i])]
    IN collect(SelectSeq(decoded, LAMBDA r : r.ok))

(***************************************************************************)
(* ShuffleReader: every partition location is decoded; the first failure   *)
(* is returned.                                                            *)
(***************************************************************************)
partition_locations(f) ==
    collect([i \in 1..Len(f.node.partition_location) |->
               to_partition_location(f.node.partition_location[i])])

DecodeLocations ==
    /\ AtStep("partition_location")
    /\ LET r == partition_locations(Top)
       IN IF r.ok THEN Continue([Top EXCEPT !.parts = r.val], "locations")
          ELSE ReturnErr(r.val)

(***************************************************************************)
(* Sort: every entry must have an expr_type, be a Sort descriptor and have *)
(* a child expression, which is compiled; descending is !asc.              *)
(***************************************************************************)
sort_expr(expr, schema) ==
    IF expr.expr_type = "None" THEN Err(UnexpectedExpr)
    ELSE IF expr.expr_type = "Sort"
    THEN IF expr.expr = None THEN Err(UnexpectedSortExpr)
         ELSE LET c == compile_expr(expr.expr[1], schema)
              IN IF c.ok
                 THEN Ok([sorted |-> c.val,
                          options |-> [descending |-> ~expr.asc,
                                       nulls_first |-> expr.nulls_first]])
                 ELSE c
    ELSE Err(NotASortExpr)

sort_exprs(f) ==
    collect([i \in 1..Len(f.node.expr) |-> sort_expr(f.node.expr[i], input_schema(f))])

BindSort ==
    /\ AtStep("sort_expr")
    /\ LET r == sort_exprs(Top)
       IN IF r.ok THEN Continue([Top EXCEPT !.bound = r.val], "bind")
          ELSE ReturnErr(r.val)

(***************************************************************************)
(* The operators.  Only the try_new constructors can fail.                 *)
(***************************************************************************)
batch_size == 32768

max_concurrency == 8

Fallible(t) ==
    t \in {"Projection", "Filter", "CsvScan", "ParquetScan", "HashAggregate",
           "HashJoin", "ShuffleReader", "Sort"}

project(schema, projection) ==
    [k \in 1..Len(projection) |-> schema[projection[k] + 1]]

projection_exec(f) ==
    [op |-> "ProjectionExec", expr |-> f.bound, input |-> f.kids[1],
     schema |-> [i \in 1..Len(f.bound) |-> f.bound[i][2]]]

filter_exec(f) ==
    [op |-> "FilterExec", predicate |-> f.bound[1], input |-> f.kids[1],
     schema |-> f.kids[1].schema]

csv_exec(f) ==
    [op |-> "CsvExec", path |-> f.node.path, options |-> f.options[1],
     projection |-> Some(f.node.projection), batch_size |-> batch_size,
     schema |-> project(f.schema, f.node.projection)]

parquet_exec(f, file_schema) ==
    [op |-> "ParquetExec", filenames |-> f.node.filename,
     projection |-> Some(f.node.projection), batch_size |-> batch_size,
     max_concurrency |-> max_concurrency,
     schema |-> project(file_schema, f.node.projection)]

coalesce_batches_exec(f) ==
    [op |-> "CoalesceBatchesExec", input |-> f.kids[1],
     target_batch_size |-> f.node.target_batch_size, schema |-> f.kids[1].schema]

global_limit_exec(f) ==
    [op |-> "GlobalLimitExec", input |-> f.kids[1], limit |-> f.node.limit,
     concurrency |-> 0, schema |-> f.kids[1].schema]

local_limit_exec(f) ==
    [op |-> "LocalLimitExec", input |-> f.kids[1], limit |-> f.node.limit,
     schema |-> f.kids[1].schema]

hash_aggregate_exec(f) ==
    [op |-> "HashAggregateExec", mode |-> f.code[1], group |-> f.bound,
     aggr |-> f.aggr, input |-> f.kids[1],
     schema |-> [i \in 1..Len(f.bound) |-> f.bound[i][2]]
                \o [i \in 1..Len(f.aggr) |-> f.aggr[i].name]]

(* Variant of hash_join_exec: the left input is passed for both sides. *)
hash_join_exec_left_twice(f) ==
    [op |-> "HashJoinExec", left |-> f.kids[1], right |-> f.kids[1],
     on |-> f.on, join_type |-> f.code[1],
     schema |-> f.kids[1].schema \o f.kids[1].schema]

hash_join_exec(f) ==
    [op |-> "HashJoinExec", left |-> f.kids[1], right |-> f.kids[2],
     on |-> f.on, join_type |-> f.code[1],
     schema |-> f.kids[1].schema \o f.kids[2].schema]

shuffle_reader_exec(f) ==
    [op |-> "ShuffleReaderExec", partition_location |-> f.parts, schema |-> f.schema]

empty_exec(f) ==
    [op |-> "EmptyExec", produce_one_row |-> f.node.produce_one_row,
     schema |-> f.schema]

sort_exec(f) ==
    [op |-> "SortExec", sort |-> f.bound, input |-> f.kids[1], concurrency |-> 1,
     schema |-> f.kids[1].schema]

new_exec(f, file_schema) ==
    CASE f.node.physical_plan_type = "Projection" -> projection_exec(f)
      [] f.node.physical_plan_type = "Filter" -> filter_exec(f)
      [] f.node.physical_plan_type = "CsvScan" -> csv_exec(f)
      [] f.node.physical_plan_type = "ParquetScan" -> parquet_exec(f, file_schema)
      [] f.node.physical_plan_type = "CoalesceBatches" -> coalesce_batches_exec(f)
      [] f.node.physical_plan_type = "GlobalLimit" -> global_limit_exec(f)
      [] f.node.physical_plan_type = "LocalLimit" -> local_limit_exec(f)
      [] f.node.physical_plan_type = "HashAggregate" -> hash_aggregate_exec(f)
      [] f.node.physical_plan_type = "HashJoin" -> hash_join_exec(f)
      [] f.node.physical_plan_type = "ShuffleReader" -> shuffle_reader_exec(f)
      [] f.node.physical_plan_type = "Empty" -> empty_exec(f)
      [] f.node.physical_plan_type = "Sort" -> sort_exec(f)

(***************************************************************************)
(* Ok(Arc::new(XExec::try_new(..)?)) or Ok(Arc::new(XExec::new(..))): the  *)
(* constructor of the arm is called; a try_new may reject its arguments,   *)
(* and the schema of a parquet file is whatever the file holds.            *)
(***************************************************************************)
Construct ==
    /\ AtStep("new")
    /\ \E rejected \in BOOLEAN, file_schema \in Schemas :
          IF rejected /\ Fallible(Top.node.physical_plan_type)
          THEN ReturnErr(DataFusionError(Top.node.physical_plan_type))
          ELSE ReturnOk(new_exec(Top, file_schema))

Next ==
    \/ Dispatch
    \/ convert_box_required
    \/ ChildReturn
    \/ BindProjection
    \/ BindFilter
    \/ ConvertSchema
    \/ CsvOptions
    \/ Unimplemented
    \/ DecodeMode
    \/ BindGroup
    \/ BindAggr
    \/ CollectOn
    \/ DecodeJoinType
    \/ DecodeLocations
    \/ BindSort
    \/ Construct
    \/ Finish

Spec == Init /\ [][Next]_vars

Done == result.status # "running"

TypeOK ==
    /\ result.status \in {"running", "ok", "err", "abort"}
    /\ Len(stack) <= 3
    /\ Len(ret) <= 1

(***************************************************************************)
(* Vocabulary of the properties.                                           *)
(***************************************************************************)
HasNode(p) == NodeAt(root, p) # None

Node(p) == NodeAt(root, p)[1]

TypeAt(p) == Node(p).physical_plan_type

(* try_into has been called on the node at p *)
Called(p) == \E i \in DOMAIN log : log[i].path = p

(* every child of the node at p has been translated to an operator *)
ChildrenOk(p) ==
    \A k \in 1..Len(ChildFields(Node(p))) :
        \E i \in DOMAIN log : log[i] = Event(Append(p, ChildFields(Node(p))[k]), "new", None)

ReturnedErr(p, e) == \E i \in DOMAIN log : log[i] = Event(p, "err", Some(e))

OwnSteps == {"bind", "decode", "on", "schema", "options", "locations", "new"}

RootErr(e) == result = [status |-> "err", val |-> <<e>>]

(* C1: a node without a discriminator, at the root or below it, makes the
   call on it return the missing-plan-type error and do nothing else; the
   error is what every enclosing call and the root call return, and no
   operator is built for the node or for any of its ancestors. *)
C1_MissingDiscriminator ==
    \A p \in Paths :
        (HasNode(p) /\ TypeAt(p) = "None") =>
            /\ \A q \in Paths : IsPrefix(q, p) => built[q] = None
            /\ \A i \in DOMAIN log :
                  log[i].path = p => log[i] = Event(p, "err", Some(MissingPlanType))
            /\ Called(p) =>
                  /\ \A i \in DOMAIN log :
                        (IsPrefix(log[i].path, p) /\ log[i].ev = "err")
                            => log[i].err = Some(MissingPlanType)
                  /\ result.status # "abort"
                  /\ Done => RootErr(MissingPlanType)

C1_Witness ==
    /\ Done
    /\ \E p \in Paths :
          /\ Len(p) = 2
          /\ HasNode(p)
          /\ TypeAt(p) = "None"
          /\ Called(p)
    /\ RootErr(MissingPlanType)

(* C2: no input makes the translation abort: every call ends in an operator
   or in a returned error. *)
C2_NoAbort == result.status # "abort"

(* C3: a Projection, Filter or Sort node without its input returns the
   missing-required-field error naming "input", whatever its other fields
   hold; it neither aborts nor builds an operator. *)
C3_MissingInput ==
    \A p \in Paths :
        (HasNode(p) /\ TypeAt(p) \in {"Projection", "Filter", "Sort"}
                    /\ Node(p).input = None) =>
            /\ built[p] = None
            /\ \A i \in DOMAIN log :
                  log[i].path = p =>
                      \/ log[i] = Event(p, "match", None)
                      \/ log[i] = Event(p, "err", Some(MissingRequiredField("input")))
            /\ (Called(p) /\ Done) => ReturnedErr(p, MissingRequiredField("input"))
            /\ (p = <<>> /\ Done) => RootErr(MissingRequiredField("input"))

C3_Witness ==
    /\ Done
    /\ root.physical_plan_type = "Filter"
    /\ root.input = None
    /\ root.expr = None
    /\ RootErr(MissingRequiredField("input"))

(* C4 as stated: a HashAggregate node with an unknown mode code, and a
   HashJoin node with an unknown join-type code, always fail with the
   unknown-enum error. *)
BadEnum(n) ==
    \/ n.physical_plan_type = "HashAggregate" /\ AggregateMode_from_i32(n.mode) = None
    \/ n.physical_plan_type = "HashJoin" /\ JoinType_from_i32(n.join_type) = None

UnknownEnum(n) ==
    IF n.physical_plan_type = "HashAggregate" THEN UnknownAggregateMode ELSE UnknownJoinType

C4_Original ==
    (Done /\ BadEnum(root)) => RootErr(UnknownEnum(root))

(* C4 amended: a HashAggregate or HashJoin node with an unknown code never
   builds its operator and binds no expression; once its children are
   translated to operators its call returns the unknown-enum error and
   nothing else.  A built aggregate or join carries the value named like
   the code of the node. *)
C4_EnumCodes ==
    \A p \in Paths :
        (HasNode(p) /\ TypeAt(p) \in {"HashAggregate", "HashJoin"}) =>
            /\ BadEnum(Node(p)) =>
                  /\ built[p] = None
                  /\ \A i \in DOMAIN log :
                        log[i].path = p => log[i].ev \notin {"bind", "new", "panic"}
                  /\ ChildrenOk(p) =>
                        /\ \A i \in DOMAIN log :
                              (log[i].path = p /\ log[i].ev = "err")
                                  => log[i].err = Some(UnknownEnum(Node(p)))
                        /\ Done => ReturnedErr(p, UnknownEnum(Node(p)))
            /\ (built[p] # None /\ TypeAt(p) = "HashAggregate") =>
                  Some(built[p][1].mode) = AggregateMode_from_i32(Node(p).mode)
            /\ (built[p] # None /\ TypeAt(p) = "HashJoin") =>
                  Some(built[p][1].join_type) = JoinType_from_i32(Node(p).join_type)

C4_Witness ==
    /\ Done
    /\ root.physical_plan_type = "HashJoin"
    /\ BadEnum(root)
    /\ ChildrenOk(<<>>)
    /\ RootErr(UnknownJoinType)

C4_WitnessValid ==
    /\ Done
    /\ root.physical_plan_type = "HashAggregate"
    /\ root.mode = 1
    /\ result.status = "ok"
    /\ result.val[1].mode = "Final"

(* C5: a Sort node with a present input and an entry that is no usable sort
   descriptor (no expr_type, another variant, or a Sort without its child
   expression) ends in a returned error: no abort, no sort operator. *)
BadSortEntry(e) ==
    \/ e.expr_type # "Sort"
    \/ e.expr = None

C5_SortEntry ==
    (/\ Done
     /\ root.physical_plan_type = "Sort"
     /\ root.input # None
     /\ \E i \in 1..Len(root.expr) : BadSortEntry(root.expr[i]))
        => /\ result.status = "err"
           /\ built[<<>>] = None

(* C6: a wire expression the binder cannot convert to a logical expression,
   embedded in a Projection, Filter, HashAggregate or Sort node whose input
   has been translated, makes the call return an error: never an operator,
   never an abort. *)
Unconvertible(e) == ~to_expr(e).ok

EmbedsUnconvertible(n) ==
    CASE n.physical_plan_type = "Projection" ->
            \E i \in 1..Len(n.expr) : Unconvertible(n.expr[i])
      [] n.physical_plan_type = "Filter" ->
            n.expr # None /\ Unconvertible(n.expr[1])
      [] n.physical_plan_type = "HashAggregate" ->
            \/ \E i \in 1..Len(n.group_expr) : Unconvertible(n.group_expr[i])
            \/ \E i \in 1..Len(n.aggr_expr) : Unconvertible(n.aggr_expr[i])
      [] n.physical_plan_type = "Sort" ->
            \E i \in 1..Len(n.expr) :
                /\ n.expr[i].expr_type = "Sort"
                /\ n.expr[i].expr # None
                /\ Unconvertible(n.expr[i].expr[1])
      [] OTHER -> FALSE

C6_UnsupportedExpr ==
    (Done /\ ChildrenOk(<<>>) /\ EmbedsUnconvertible(root)) => result.status = "err"

(* C7: a ShuffleReader node with a schema: a built operator tracks exactly
   the decoded entries of the wire list, one for one and in wire order, and
   is built only when every entry decodes; when an entry fails to decode,
   the call returns the error of the first such entry and builds nothing. *)
C7_ShuffleReader ==
    \A p \in Paths :
        (HasNode(p) /\ TypeAt(p) = "ShuffleReader" /\ Node(p).schema # None) =>
            LET wire == Node(p).partition_location
                failing == {i \in 1..Len(wire) : ~to_partition_location(wire[i]).ok}
            IN /\ built[p] # None =>
                     /\ failing = {}
                     /\ Len(built[p][1].partition_location) = Len(wire)
                     /\ \A i \in 1..Len(wire) :
                           /\ built[p][1].partition_location[i].partition
                                 = wire[i].partition_id[1]
                           /\ built[p][1].partition_location[i].executor
                                 = wire[i].executor_meta[1]
               /\ failing # {} =>
                     /\ built[p] = None
                     /\ \A i \in DOMAIN log : log[i].path = p => log[i].ev # "new"
                     /\ (Called(p) /\ Done) =>
                           \E k \in failing :
                               /\ \A j \in failing : k <= j
                               /\ ReturnedErr(p, to_partition_location(wire[k]).val)
               /\ (failing = {} /\ Called(p) /\ Done) =>
                     \/ built[p] # None
                     \/ ReturnedErr(p, DataFusionError("ShuffleReader"))

C7_Witness ==
    /\ Done
    /\ root.physical_plan_type = "ShuffleReader"
    /\ Len(root.partition_location) = 3
    /\ root.partition_location[1] # root.partition_location[2]
    /\ result.status = "ok"
    /\ Len(result.val[1].partition_location) = 3

C7_WitnessFailure ==
    /\ Done
    /\ root.physical_plan_type = "ShuffleReader"
    /\ Len(root.partition_location) = 3
    /\ to_partition_location(root.partition_location[1]).ok
    /\ root.partition_location[2] = WireLocation(Some("p0"), None)
    /\ root.partition_location[3] = WireLocation(None, Some("h1"))
    /\ RootErr(MissingRequiredField("executor_meta"))

(* C8: a built projection has one output column for each expression of the
   node, in list order: column i is named by the name of pair i, and the
   expression of pair i is expression i of the node compiled against the
   schema of the translated input. *)
C8_ProjectionSchema ==
    \A p \in Paths :
        (HasNode(p) /\ TypeAt(p) = "Projection" /\ built[p] # None) =>
            LET op == built[p][1]
                input == built[Append(p, "input")][1]
            IN /\ Len(op.schema) = Len(Node(p).expr)
               /\ Len(op.expr) = Len(Node(p).expr)
               /\ \A i \in 1..Len(Node(p).expr) :
                     /\ op.schema[i] = op.expr[i][2]
                     /\ Ok(op.expr[i][1]) = compile_expr(Node(p).expr[i], input.schema)

C8_Witness ==
    /\ Done
    /\ root = ProjectionNode(Some(EmptyAB), <<ColumnExpr("b"), ColumnExpr("a")>>)
    /\ result.status = "ok"
    /\ result.val[1].schema = <<"unused", "unused">>

C8_WitnessSingle ==
    /\ Done
    /\ root = ProjectionNode(Some(EmptyA), <<ColumnExpr("a")>>)
    /\ result.status = "ok"
    /\ Len(result.val[1].schema) = 1

(* C9: a built hash join has the translation of the node's left child as
   its left input and the translation of the node's right child as its
   right input, and its on pairs are the (left, right) names of the node's
   pairs in wire order. *)
C9_JoinChildren ==
    \A p \in Paths :
        (HasNode(p) /\ TypeAt(p) = "HashJoin" /\ built[p] # None) =>
            LET op == built[p][1]
            IN /\ built[Append(p, "left")] = Some(op.left)
               /\ built[Append(p, "right")] = Some(op.right)
               /\ Len(op.on) = Len(Node(p).on)
               /\ \A i \in 1..Len(Node(p).on) :
                     op.on[i] = <<Node(p).on[i].left, Node(p).on[i].right>>

C9_Witness ==
    /\ Done
    /\ root.physical_plan_type = "HashJoin"
    /\ root.left = Some(EmptyA)
    /\ root.right = Some(LocalLimitNode(Some(EmptyA)))
    /\ root.on = <<[left |-> "a", right |-> "b"]>>
    /\ result.status = "ok"
    /\ result.val[1].left.op = "EmptyExec"
    /\ result.val[1].right.op = "LocalLimitExec"

(* C10: translation is post-order.  A node does nothing of its own (it
   decodes no code, binds no expression, calls no constructor) before each
   of its children has been translated to an operator; when the call on a
   child returns an error, the node does nothing of its own at all, builds
   no operator, and its own call returns that error as its very next
   step. *)
C10_PostOrder ==
    \A i \in DOMAIN log :
        LET p == log[i].path
        IN /\ (log[i].ev \in OwnSteps) =>
                 \A k \in 1..Len(ChildFields(Node(p))) :
                     \E j \in 1..(i - 1) :
                         log[j] = Event(Append(p, ChildFields(Node(p))[k]), "new", None)
           /\ (log[i].ev = "err" /\ p # <<>>) =>
                 LET parent == SubSeq(p, 1, Len(p) - 1)
                 IN /\ built[parent] = None
                    /\ \A j \in DOMAIN log :
                          log[j].path = parent => log[j].ev \notin OwnSteps
                    /\ i < Len(log) => log[i + 1] = Event(parent, "err", log[i].err)
                    /\ Done => i < Len(log)

C10_Witness ==
    /\ Done
    /\ root.physical_plan_type = "HashAggregate"
    /\ root.input = Some(LocalLimitNode(Some(NoPlanType)))
    /\ AggregateMode_from_i32(root.mode) = None
    /\ root.group_expr # <<>>
    /\ RootErr(MissingPlanType)

C10_WitnessOk ==
    /\ Done
    /\ root.physical_plan_type = "HashJoin"
    /\ root.right = Some(LocalLimitNode(Some(EmptyA)))
    /\ result.status = "ok"

====
